---- MODULE Spec2Model ----
(***************************************************************************)
(* Model of src/tmt/tmt.py: closest-value search, tolerance resolution,    *)
(* the reference ion list (DDAList), Spectrum.get_intensity and the        *)
(* ReporterSearcher (validation at construction, the run generator).       *)
(*                                                                         *)
(* Numbers.  Every m/z, distance and absolute tolerance is an integer      *)
(* count of millionths (1.0 is Million), so the ten REPORTERS literals     *)
(* are exact.  A resolved tolerance window is the exact rational           *)
(* q + r/Million, kept as the record [q, r] with 0 <= r < Million.         *)
(* Floating-point rounding of the Python floats is not modelled.           *)
(* Indices are Python's (0-based); At(a, i) reads a[i].                    *)
(***************************************************************************)
EXTENDS Integers, Sequences, FiniteSets, TLC

VARIABLES
    call,       \* CallSpec: one call of a function, its arguments and outcome
    dda,        \* ReporterSearcher._dda_list._data
    ms1_tol,    \* ReporterSearcher.ms1_tol
    ms2_tol,    \* ReporterSearcher.ms2_tol
    ctor,       \* outcome of ReporterSearcher(...): "none", "ok", "raised"
    source,     \* the spectra the MGFReader yields, in order
    nread,      \* how many spectra run has requested from the source
    cur,        \* run's loop variable spec
    precursor,  \* run's variable precursor (the ion find returned)
    pc,         \* where the run generator stands
    out,        \* the records handed to the consumer (search's for loop)
    consumer    \* the consumer: "ready", "waiting", "abandoned", "finished"

vars == <<call, dda, ms1_tol, ms2_tol, ctor, source, nread, cur, precursor,
          pc, out, consumer>>

pipeline_vars == <<dda, ms1_tol, ms2_tol, ctor, source, nread, cur, precursor,
                   pc, out, consumer>>

----------------------------------------------------------------------------
(* Constants of the program *)

Million == 1000000

Inf == 2147483647

REPORTERS ==
    << 126127726, 127124761, 127131081, 128128116, 128134436,
       129131471, 129137790, 130134825, 130141145, 131138180 >>

----------------------------------------------------------------------------
(* Python values *)

None == [py |-> "None"]

Ret(v) == [kind |-> "return", val |-> v]

Raise(e) == [kind |-> "raise", exc |-> e]

Pending == [kind |-> "pending"]

At(a, i) == a[i + 1]

Abs(n) == IF n < 0 THEN -n ELSE n

\* a[i] for 0 <= i: an index past the end raises IndexError
GetItem(a, i) == IF i < Len(a) THEN Ret(At(a, i)) ELSE Raise("IndexError")

\* a bool used as a number: True is 1.0, False is 0.0
BoolAsNumber(b) == IF b THEN Million ELSE 0

Range(s) == {s[i] : i \in 1..Len(s)}

RECURSIVE SeqMax(_)
SeqMax(a) ==
    IF Len(a) = 1 THEN a[1]
    ELSE LET m == SeqMax(Tail(a)) IN IF a[1] >= m THEN a[1] ELSE m

----------------------------------------------------------------------------
(* sorted(): stable, ascending *)

RECURSIVE InsertNum(_, _)
InsertNum(s, e) ==
    IF s = << >> THEN <<e>>
    ELSE IF e < s[1] THEN <<e>> \o s
    ELSE <<s[1]>> \o InsertNum(Tail(s), e)

RECURSIVE SortedNum(_)
SortedNum(a) ==
    IF a = << >> THEN << >>
    ELSE InsertNum(SortedNum(SubSeq(a, 1, Len(a) - 1)), a[Len(a)])

RECURSIVE InsertIon(_, _)
InsertIon(s, e) ==
    IF s = << >> THEN <<e>>
    ELSE IF e.mz < s[1].mz THEN <<e>> \o s
    ELSE <<s[1]>> \o InsertIon(Tail(s), e)

RECURSIVE SortedByMz(_)
SortedByMz(l) ==
    IF l = << >> THEN << >>
    ELSE InsertIon(SortedByMz(SubSeq(l, 1, Len(l) - 1)), l[Len(l)])

----------------------------------------------------------------------------
(* Closest match *)

\* bisect.bisect(a, x): the rightmost insertion point, by binary search
RECURSIVE bisect_loop(_, _, _, _)
bisect_loop(a, x, lo, hi) ==
    IF lo < hi
    THEN LET mid == (lo + hi) \div 2
         IN IF x < At(a, mid) THEN bisect_loop(a, x, lo, mid)
            ELSE bisect_loop(a, x, mid + 1, hi)
    ELSE lo

bisect(a, x) == bisect_loop(a, x, 0, Len(a))

\* variant of min_by_distance: the second of the two on a tie
min_by_distance_last(i, j, x, a) ==
    IF Abs(x - At(a, i)) < Abs(x - At(a, j)) THEN i ELSE j

\* min([i, j], key=lambda i: abs(x - a[i])): the first of the two on a tie
min_by_distance(i, j, x, a) ==
    IF Abs(x - At(a, i)) <= Abs(x - At(a, j)) THEN i ELSE j

\* a is the sequence of keys (the elements themselves when key is None)
index_most_closed(x, a) ==
    LET bisect_i == bisect(a, x)
    IN IF bisect_i = 0 THEN 0
       ELSE IF bisect_i = Len(a) THEN Len(a) - 1
       ELSE min_by_distance(bisect_i, bisect_i - 1, x, a)

MzKeys(a) == [i \in 1..Len(a) |-> a[i].mz]

\* most_closed(x, a, key=attrgetter("mz"))
most_closed(x, a) == GetItem(a, index_most_closed(x, MzKeys(a)))

----------------------------------------------------------------------------
(* Tolerance *)

AbsTol(v) == [kind |-> "abs", v |-> v]

Ppm(p) == [kind |-> "ppm", v |-> p]

\* self._ppm * mz / 1e6, exactly: ppm * mz = q * Million + r.  The product is
\* formed in parts so that no intermediate leaves 32 bits (ppm < 2 * 10^5).
Ppm_call(ppm, mz) ==
    LET mq == mz \div Million
        mr == mz % Million
        p1 == ppm \div 1000
        p0 == ppm % 1000
        A  == p1 * mr
        B  == p0 * mr
        T  == (A % 1000) * 1000 + B
    IN [q |-> ppm * mq + (A \div 1000) + (T \div Million), r |-> T % Million]

\* tol(mz) if isinstance(tol, Ppm) else tol
Resolve(tol, mz) ==
    IF tol.kind = "ppm" THEN Ppm_call(tol.v, mz) ELSE [q |-> tol.v, r |-> 0]

\* variant of LessEq: the edge of the window excluded
LessEq_strict(d, w) == d < w.q \/ (d = w.q /\ w.r > 0)

\* d <= w for an integer d and a window w = q + r/Million
LessEq(d, w) == d <= w.q

\* variant of Less: the edge of the window included
Less_closed(d, w) == d <= w.q

\* d < w
Less(d, w) == d < w.q \/ (d = w.q /\ w.r > 0)

\* w > n
Greater(w, n) == w.q > n \/ (w.q = n /\ w.r > 0)

----------------------------------------------------------------------------
(* DDAList *)

Ion(mz, charge) == [mz |-> mz, charge |-> charge]

\* the converter of DDAList._data
DDAList(l) == SortedByMz(l)

find(data, mz, tol, charge) ==
    LET got == most_closed(mz, data)
    IN IF got.kind = "raise" THEN got
       ELSE LET candidate == got.val
                w == Resolve(tol, mz)
            IN IF LessEq(Abs(candidate.mz - mz), w) /\ candidate.charge = charge
               THEN Ret(candidate)
               ELSE Ret(None)

----------------------------------------------------------------------------
(* Spectrum *)

Spectrum(scan, precursor_mz, precursor_charge, mz_a, intensity_a) ==
    [scan |-> scan, precursor_mz |-> precursor_mz,
     precursor_charge |-> precursor_charge,
     mz_a |-> mz_a, intensity_a |-> intensity_a]

get_intensity(self, mz, tol) ==
    LET w == Resolve(tol, mz)
        peak_i == index_most_closed(mz, self.mz_a)
        peak == GetItem(self.mz_a, peak_i)
    IN IF peak.kind = "raise" THEN peak
       ELSE IF Less(Abs(peak.val - mz), w)
            THEN GetItem(self.intensity_a, peak_i)
            ELSE Ret(0)

----------------------------------------------------------------------------
(* Bounded inputs of the single calls *)

MaxLen == 3
MaxVal == 4
MaxIons == 2
MaxPeaks == 3

SeqsUpTo(S, n) == UNION {[1..k -> S] : k \in 0..n}

Ascending(s) == \A i \in 1..(Len(s) - 1) : s[i] <= s[i + 1]

AscendingSeqs(S, n) == {s \in SeqsUpTo(S, n) : Ascending(s)}

Values == 1..MaxVal

Queries == 0..(MaxVal + 1)

CallIonMzs == {1000000000, 1000200000, 1001000000}

CallCharges == {3, 4}

CallIons == {Ion(m, c) : m \in CallIonMzs, c \in CallCharges}

CallFindMzs == {999000000, 1000000000, 1000100000, 1000150000, 1000500000}

CallFindTols ==
    {AbsTol(100000), AbsTol(500000), AbsTol(1000000),
     Ppm(100), Ppm(200), Ppm(1000)}

CallPeakMzs == {100000000, 100200000, 200000000}

CallIntensities == {1000000, 2000000}

CallPeakQueries == {100000000, 100000010, 100500000, 150000000, 500000000}

CallPeakTols == {AbsTol(500000), AbsTol(1000000), Ppm(10), Ppm(1000), Ppm(2000)}

CallInputs ==
    {[op |-> "index_most_closed", x |-> x, a |-> a, ret |-> Pending] :
        x \in Queries, a \in AscendingSeqs(Values, MaxLen)}
    \cup
    {[op |-> "find", ions |-> l, data |-> DDAList(l), mz |-> m, tol |-> t,
      charge |-> c, ret |-> Pending] :
        l \in SeqsUpTo(CallIons, MaxIons), m \in CallFindMzs,
        t \in CallFindTols, c \in CallCharges}
    \cup
    UNION {
      {[op |-> "get_intensity",
        self |-> Spectrum(1, 1000000000, 3, a, i), mz |-> m, tol |-> t,
        ret |-> Pending] :
          i \in [1..Len(a) -> CallIntensities], m \in CallPeakQueries,
          t \in CallPeakTols}
      : a \in AscendingSeqs(CallPeakMzs, MaxPeaks)}

----------------------------------------------------------------------------
(* The state of the pipeline while single calls are checked *)

NoSpectrum == [py |-> "unbound"]

PipelineIdle ==
    /\ dda = << >>
    /\ ms1_tol = None
    /\ ms2_tol = None
    /\ ctor = "none"
    /\ source = << >>
    /\ nread = 0
    /\ cur = NoSpectrum
    /\ precursor = None
    /\ pc = "unborn"
    /\ out = << >>
    /\ consumer = "ready"

CallInit ==
    /\ call \in CallInputs
    /\ PipelineIdle

Call_index_most_closed ==
    /\ call.op = "index_most_closed"
    /\ call.ret = Pending
    /\ call' = [call EXCEPT !.ret = Ret(index_most_closed(call.x, call.a))]
    /\ UNCHANGED pipeline_vars

Call_find ==
    /\ call.op = "find"
    /\ call.ret = Pending
    /\ call' = [call EXCEPT
                  !.ret = find(call.data, call.mz, call.tol, call.charge)]
    /\ UNCHANGED pipeline_vars

Call_get_intensity ==
    /\ call.op = "get_intensity"
    /\ call.ret = Pending
    /\ call' = [call EXCEPT
                  !.ret = get_intensity(call.self, call.mz, call.tol)]
    /\ UNCHANGED pipeline_vars

CallNext ==
    \/ Call_index_most_closed
    \/ Call_find
    \/ Call_get_intensity

CallSpec == CallInit /\ [][CallNext]_vars

----------------------------------------------------------------------------
(* ReporterSearcher *)

\* min_diff of _check_ms2_tol.  i is the loop index of range(1, len(a) - 1).
\* The walrus binds diff to the comparison (a[i] - a[i-1] < min_), a bool,
\* and min_ takes that bool when it is true.
RECURSIVE min_diff_loop(_, _, _)
min_diff_loop(a, i, min_) ==
    IF i >= Len(a) - 1 THEN min_
    ELSE LET diff == BoolAsNumber(At(a, i) - At(a, i - 1) < min_)
         IN min_diff_loop(a, i + 1, IF diff # 0 THEN diff ELSE min_)

min_diff(a) == min_diff_loop(SortedNum(a), 1, Inf)

\* TRUE when the validator raises ValueError
check_ms2_tol(value) ==
    LET reporter_min_diff == min_diff(REPORTERS)
        tol == Resolve(value, SeqMax(REPORTERS))
    IN Greater(tol, reporter_min_diff)

SearchRecord(scan, precursor_mz, reporters) ==
    [scan |-> scan, precursor_mz |-> precursor_mz, reporters |-> reporters]

\* {mz: spec.get_intensity(mz, tol=self.ms2_tol) for mz in REPORTERS}
reporter_intensities(spec, tol) ==
    [mz \in Range(REPORTERS) |-> get_intensity(spec, mz, tol)]

----------------------------------------------------------------------------
(* Bounded inputs of the pipeline *)

MaxSpectra == 2
MaxRefIons == 2

RefIons == {Ion(500000000, 2), Ion(500020000, 3)}

Ms1Tols == {Ppm(20)}

Ms2Tols == {Ppm(20), Ppm(49), AbsTol(500000), AbsTol(2000000), Ppm(8000)}

Precursors == {Ion(500000000, 2), Ion(500010000, 3)}

\* no peak; one peak midway between two reporters; peaks on two reporters
Fragments ==
    { [mz_a |-> << >>, intensity_a |-> << >>],
      [mz_a |-> <<127127921>>, intensity_a |-> <<700>>],
      [mz_a |-> <<126127726, 131138180>>, intensity_a |-> <<500, 900>>] }

SpectrumBodies == Precursors \X Fragments

\* the spectra of an MGF file: scan numbers count the spectra
Spectra(bodies) ==
    [i \in 1..Len(bodies) |->
        Spectrum(i, bodies[i][1].mz, bodies[i][1].charge,
                 bodies[i][2].mz_a, bodies[i][2].intensity_a)]

NoCall == [op |-> "none", ret |-> Pending]

Init ==
    /\ call = NoCall
    /\ dda \in {DDAList(l) : l \in SeqsUpTo(RefIons, MaxRefIons)}
    /\ source \in {Spectra(b) : b \in SeqsUpTo(SpectrumBodies, MaxSpectra)}
    /\ ms1_tol = None
    /\ ms2_tol = None
    /\ ctor = "none"
    /\ nread = 0
    /\ cur = NoSpectrum
    /\ precursor = None
    /\ pc = "unborn"
    /\ out = << >>
    /\ consumer = "ready"

\* search: ReporterSearcher(dda_list, ms1_tol, ms2_tol), then searcher.run(...)
\* creates the generator.  A raising validator leaves no searcher; ms2_tol
\* then keeps the rejected argument.
Construct ==
    /\ ctor = "none"
    /\ \E t1 \in Ms1Tols, t2 \in Ms2Tols :
          /\ ms1_tol' = t1
          /\ ms2_tol' = t2
          /\ IF check_ms2_tol(t2)
             THEN ctor' = "raised" /\ pc' = pc
             ELSE ctor' = "ok" /\ pc' = "created"
    /\ UNCHANGED <<call, dda, source, nread, cur, precursor, out, consumer>>

\* the consumer asks for the next record: next() on the generator
NextRecord ==
    /\ consumer = "ready"
    /\ pc \in {"created", "yielded"}
    /\ consumer' = "waiting"
    /\ pc' = "fetch"
    /\ UNCHANGED <<call, dda, ms1_tol, ms2_tol, ctor, source, nread, cur,
                   precursor, out>>

\* the consumer stops pulling
Abandon ==
    /\ consumer = "ready"
    /\ pc \in {"created", "yielded"}
    /\ consumer' = "abandoned"
    /\ UNCHANGED <<call, dda, ms1_tol, ms2_tol, ctor, source, nread, cur,
                   precursor, pc, out>>

\* for spec in mgf_reader: the next spectrum, or the end of the generator
RunFetch ==
    /\ pc = "fetch"
    /\ IF nread < Len(source)
       THEN /\ nread' = nread + 1
            /\ cur' = source[nread + 1]
            /\ pc' = "find"
            /\ consumer' = consumer
       ELSE /\ pc' = "done"
            /\ consumer' = "finished"
            /\ UNCHANGED <<nread, cur>>
    /\ UNCHANGED <<call, dda, ms1_tol, ms2_tol, ctor, source, precursor, out>>

\* if precursor := self._dda_list.find(...)
RunFind ==
    /\ pc = "find"
    /\ LET got == find(dda, cur.precursor_mz, ms1_tol, cur.precursor_charge)
       IN IF got.kind = "raise"
          THEN pc' = "raised" /\ consumer' = "finished" /\ precursor' = precursor
          ELSE IF got.val = None
          THEN pc' = "fetch" /\ consumer' = consumer /\ precursor' = None
          ELSE pc' = "extract" /\ consumer' = consumer /\ precursor' = got.val
    /\ UNCHANGED <<call, dda, ms1_tol, ms2_tol, ctor, source, nread, cur, out>>

\* variant of RunYield: the record is handed over but the generator runs on
RunYield_not_suspending ==
    /\ pc = "extract"
    /\ LET got == reporter_intensities(cur, ms2_tol)
       IN IF \E mz \in DOMAIN got : got[mz].kind = "raise"
          THEN pc' = "raised" /\ consumer' = "finished" /\ out' = out
          ELSE /\ out' = Append(out, SearchRecord(cur.scan, precursor.mz,
                                    [mz \in DOMAIN got |-> got[mz].val]))
               /\ pc' = "fetch"
               /\ consumer' = "ready"
    /\ UNCHANGED <<call, dda, ms1_tol, ms2_tol, ctor, source, nread, cur,
                   precursor>>

\* record = SearchRecord(...); yield record
RunYield ==
    /\ pc = "extract"
    /\ LET got == reporter_intensities(cur, ms2_tol)
       IN IF \E mz \in DOMAIN got : got[mz].kind = "raise"
          THEN pc' = "raised" /\ consumer' = "finished" /\ out' = out
          ELSE /\ out' = Append(out, SearchRecord(cur.scan, precursor.mz,
                                    [mz \in DOMAIN got |-> got[mz].val]))
               /\ pc' = "yielded"
               /\ consumer' = "ready"
    /\ UNCHANGED <<call, dda, ms1_tol, ms2_tol, ctor, source, nread, cur,
                   precursor>>

\* the steps of a run and of its consumer
RunStep ==
    \/ NextRecord
    \/ Abandon
    \/ RunFetch
    \/ RunFind
    \/ RunYield

Next ==
    \/ Construct
    \/ RunStep

Spec == Init /\ [][Next]_vars

\* Once a run exists, the interpreter takes its steps one after the other and
\* the consumer either asks again or stops: no step of the run that can be
\* taken is put off for ever.
FairSpec == Spec /\ WF_vars(RunStep)

----------------------------------------------------------------------------
(* The statements about single calls, checked under CallSpec.  The window *)
(* comparisons below are computed on their own, not through Resolve.       *)

Returned(op) == call.op = op /\ call.ret # Pending

Dist(a, i, x) == Abs(At(a, i) - x)

Indices(a) == 0..(Len(a) - 1)

\* the indices of a at minimal distance from x
Closest(a, x) ==
    {i \in Indices(a) : \A j \in Indices(a) : Dist(a, i, x) <= Dist(a, j, x)}

SetMin(S) == CHOOSE m \in S : \A n \in S : m <= n

SetMax(S) == CHOOSE m \in S : \A n \in S : m >= n

\* d <= w for the window w of tol at mz (ppm <= 2000)
WithinClosed(d, tol, mz) ==
    IF tol.kind = "abs" THEN d <= tol.v
    ELSE LET e == d - tol.v * (mz \div Million)
         IN e <= 0 \/ (e <= tol.v /\ e * Million <= tol.v * (mz % Million))

\* d < w for the window w of tol at mz (ppm <= 2000, or d below ppm * mz)
WithinOpen(d, tol, mz) ==
    IF tol.kind = "abs" THEN d < tol.v
    ELSE LET e == d - tol.v * (mz \div Million)
         IN e < 0 \/ (e <= tol.v /\ e * Million < tol.v * (mz % Million))

\* C1 as stated: on a non-empty ascending a, index_most_closed(x, a) is an
\* index at minimal distance from x, and the lowest such index.
C1_LowestClosestIndex ==
    (Returned("index_most_closed") /\ call.a # << >>) =>
        /\ call.ret.kind = "return"
        /\ call.ret.val \in Closest(call.a, call.x)
        /\ call.ret.val = SetMin(Closest(call.a, call.x))

\* C1 amended: on a non-empty ascending a, index_most_closed(x, a) is an index
\* at minimal distance from x; among the indices at that distance it is the
\* lowest one whose element is greater than x when there is one (the higher
\* neighbour on an exact tie), and the highest one otherwise.
C1_ClosestIndexUpperOnTie ==
    (Returned("index_most_closed") /\ call.a # << >>) =>
        LET best == Closest(call.a, call.x)
            above == {i \in best : At(call.a, i) > call.x}
        IN /\ call.ret.kind = "return"
           /\ call.ret.val \in best
           /\ call.ret.val = IF above # {} THEN SetMin(above) ELSE SetMax(best)

\* an exact tie between two neighbours was decided
C1_TieDecided ==
    /\ Returned("index_most_closed")
    /\ call.ret.kind = "return"
    /\ \E i \in Closest(call.a, call.x) :
          At(call.a, i) < call.x /\ At(call.a, call.ret.val) > call.x

\* C3: on a non-empty DDAList built from ions in any order, find returns the
\* candidate of most_closed (an ion of the list at minimal distance from mz)
\* iff abs(candidate.mz - mz) <= w and candidate.charge = charge, and
\* otherwise returns None; it raises nothing.
C3_FindReturnsCandidateIffInWindow ==
    (Returned("find") /\ call.ions # << >>) =>
        LET got == most_closed(call.mz, call.data)
            d == Abs(got.val.mz - call.mz)
        IN /\ call.ret.kind = "return"
           /\ got.kind = "return"
           /\ got.val \in Range(call.ions)
           /\ \A ion \in Range(call.ions) : d <= Abs(ion.mz - call.mz)
           /\ call.ret.val =
                IF WithinClosed(d, call.tol, call.mz)
                   /\ got.val.charge = call.charge
                THEN got.val ELSE None

\* find matched an ion at exactly the window's edge, in a list given unsorted
C3_EdgeMatchInUnsortedList ==
    /\ Returned("find")
    /\ ~Ascending(MzKeys(call.ions))
    /\ call.ret.kind = "return"
    /\ call.ret.val # None
    /\ call.tol.kind = "abs"
    /\ Abs(call.ret.val.mz - call.mz) = call.tol.v

C6_EmptyListNotFound ==
    (Returned("find") /\ call.data = << >>) => call.ret = Ret(None)

\* C7 as stated: index_most_closed on an empty sequence fails with an error;
\* it returns no index.
C7_EmptySequenceFails ==
    (Returned("index_most_closed") /\ call.a = << >>) =>
        call.ret.kind = "raise"

\* C10 as stated: on a non-empty DDAList holding an ion of the charge asked
\* for within the window of mz, find returns an ion, not None.
C10_FindsIonOfChargeInWindow ==
    (/\ Returned("find")
     /\ \E ion \in Range(call.data) :
           /\ ion.charge = call.charge
           /\ WithinClosed(Abs(ion.mz - call.mz), call.tol, call.mz)) =>
        call.ret.kind = "return" /\ call.ret.val # None

----------------------------------------------------------------------------
(* The statements about the searcher, checked under Spec and FairSpec *)

\* the least gap between consecutive reporters
MinReporterGap ==
    SetMin({REPORTERS[i + 1] - REPORTERS[i] : i \in 1..(Len(REPORTERS) - 1)})

\* the ms2 window, resolved against the largest reporter, exceeds that gap
ExceedsMinReporterGap(tol) ==
    WithinOpen(MinReporterGap, tol, SeqMax(REPORTERS))

\* C2 as stated: construction fails whenever the resolved ms2 window exceeds
\* the least gap between consecutive reporters.
C2_WideMs2ToleranceRejected ==
    (ctor # "none" /\ ExceedsMinReporterGap(ms2_tol)) => ctor = "raised"

FindsIon(s) ==
    LET got == find(dda, s.precursor_mz, ms1_tol, s.precursor_charge)
    IN got.kind = "return" /\ got.val # None

\* the intensity the record is to hold: that of the peak nearest to the
\* reporter when it lies strictly inside the window, else 0
RecordedIntensity(s, mz) ==
    IF s.mz_a = << >> THEN 0
    ELSE LET p == index_most_closed(mz, s.mz_a)
         IN IF WithinOpen(Abs(At(s.mz_a, p) - mz), ms2_tol, mz)
            THEN At(s.intensity_a, p) ELSE 0

RECURSIVE RecordsOf(_)
RecordsOf(spectra) ==
    IF spectra = << >> THEN << >>
    ELSE LET s == spectra[Len(spectra)]
             before == RecordsOf(SubSeq(spectra, 1, Len(spectra) - 1))
         IN IF FindsIon(s)
            THEN Append(before,
                   SearchRecord(s.scan,
                     find(dda, s.precursor_mz, ms1_tol, s.precursor_charge).val.mz,
                     [mz \in Range(REPORTERS) |-> RecordedIntensity(s, mz)]))
            ELSE before

\* the generator stands between two spectra
BetweenSpectra == pc \in {"created", "fetch", "yielded", "done"}

\* C5 as stated: with a non-empty reference list, run hands over, in source
\* order, one record for each spectrum whose precursor find matches and none
\* for the others, each with the spectrum's scan, the matched ion's mz and
\* the ten reporter intensities (0 where no peak is in the window); it ends
\* only after the last spectrum.
C5_OneRecordPerMatchedSpectrum ==
    (ctor = "ok" /\ dda # << >>) =>
        /\ pc # "raised"
        /\ BetweenSpectra => out = RecordsOf(SubSeq(source, 1, nread))
        /\ pc = "done" => nread = Len(source)

\* the peak get_intensity reports for reporter mz in spectrum s, as a set:
\* empty when no peak is matched
MatchedPeak(s, mz) ==
    IF s.mz_a = << >> THEN {}
    ELSE LET p == index_most_closed(mz, s.mz_a)
         IN IF WithinOpen(Abs(At(s.mz_a, p) - mz), ms2_tol, mz) THEN {p} ELSE {}

\* C9 as stated: in no record handed over by a searcher that was constructed
\* is one fragment peak the matched peak of two different reporters.
C9_NoPeakMatchedTwice ==
    \A k \in 1..Len(out) :
        \A r1, r2 \in Range(REPORTERS) :
            r1 # r2 =>
                MatchedPeak(source[out[k].scan], r1)
                    \cap MatchedPeak(source[out[k].scan], r2) = {}

\* how many of the spectra find matches
RECURSIVE MatchedCount(_)
MatchedCount(spectra) ==
    IF spectra = << >> THEN 0
    ELSE MatchedCount(Tail(spectra)) + (IF FindsIon(spectra[1]) THEN 1 ELSE 0)

====
